---- MODULE Spec2Model ----
(***************************************************************************)
(* Model of scripts/ngram_processor.py: the Google Ngram shard pipeline.   *)
(* A run of main() walks the five gram orders, and for every shard of the  *)
(* catalog checks the Firestore checkpoint, streams the shard, uploads the *)
(* filtered shard, merges it into the type aggregate and writes the        *)
(* checkpoint; after each order it ranks and uploads the type result, and  *)
(* after the last order it writes the job status and the consolidated      *)
(* files.  Cloud Storage, Firestore and the shard host are the environment:*)
(* every call to them either succeeds or raises.                           *)
(***************************************************************************)
EXTENDS Integers, Sequences, FiniteSets, TLC

(* ------------------------------ bounds --------------------------------- *)
\* number of letters of the shard alphabet that are enumerated
NumLetters == 2
\* number of successive invocations of main()
MaxRuns == 2
\* number of environment failures (raised calls, interruptions) in a behaviour
MaxFaults == 1
\* filter_and_rank inputs: entries of an aggregate and the largest top_n tried
MaxGrams == 3
MaxK == 3
\* process_shard inputs: lines of a stream
MaxLines == 3
\* two runs at the same time: the gram orders in which they overlap
MaxOverlapOrder == 1

(* ------------------------- program constants --------------------------- *)
FREQUENCY_THRESHOLD == 5000

TOP_COUNTS == [n \in 1..5 |-> IF n = 1 THEN 30000 ELSE 10000]

\* range(1, 6)
FirstOrder == 1
LastOrder == 5

Alphabet == <<"a", "b", "c", "d", "e", "f", "g", "h", "i", "j", "k", "l", "m",
              "n", "o", "p", "q", "r", "s", "t", "u", "v", "w", "x", "y", "z">>

letters == SubSeq(Alphabet, 1, NumLetters)

Min(a, b) == IF a < b THEN a ELSE b

(* --------------------------- shard catalog ----------------------------- *)
\* A URL is the fixed base of its gram order, the shard key and the ".gz"
\* suffix; the key is the sequence of its letters.
Url(n, shard) == [base |-> n, shard |-> shard, ext |-> ".gz"]

\* the inner loop naming every shard by the outer letter twice
RECURSIVE RowUrls_OuterTwice(_, _, _, _)
RowUrls_OuterTwice(ls, n, i, j) ==
    IF j > Len(ls) THEN <<>>
    ELSE <<Url(n, <<ls[i], ls[i]>>)>> \o RowUrls_OuterTwice(ls, n, i, j + 1)

\* for j in letters: urls.append(f"{base}{i}{j}.gz")
RECURSIVE RowUrls(_, _, _, _)
RowUrls(ls, n, i, j) ==
    IF j > Len(ls) THEN <<>>
    ELSE <<Url(n, <<ls[i], ls[j]>>)>> \o RowUrls(ls, n, i, j + 1)

\* for i in letters: the inner loop
RECURSIVE PairUrls(_, _, _)
PairUrls(ls, n, i) ==
    IF i > Len(ls) THEN <<>>
    ELSE RowUrls(ls, n, i, 1) \o PairUrls(ls, n, i + 1)

\* the body of build_shard_urls for a given letters string
ShardUrls(ls, n) ==
    IF n = 1
    THEN [i \in 1..Len(ls) |-> Url(n, <<ls[i]>>)]
    ELSE PairUrls(ls, n, 1)

build_shard_urls(n) == ShardUrls(letters, n)

\* url.split('/')[-1].replace('.gz', ''): the file name without its suffix,
\* i.e. the "googlebooks-eng-all-{n}gram-20120701-{key}" stem
ShardIdOf(url) == <<url.base, url.shard>>

\* f"{ngram_type}_{shard_id}": the checkpoint document id
DocId(n, shard_id) == <<n, shard_id>>

AllUrls == UNION {{build_shard_urls(n)[i] : i \in 1..Len(build_shard_urls(n))} :
                  n \in FirstOrder..LastOrder}

AllDocIds == {DocId(u.base, ShardIdOf(u)) : u \in AllUrls}

(* --------------------------- object paths ------------------------------ *)
ShardFile(n, shard_id) == <<"filtered", n, shard_id>>
TopFile(n) == <<"top", n>>
WordsFile == <<"words_top">>
PhrasesFile == <<"phrases_top">>

Paths == {ShardFile(u.base, ShardIdOf(u)) : u \in AllUrls}
         \cup {TopFile(n) : n \in FirstOrder..LastOrder}
         \cup {WordsFile, PhrasesFile}

\* content of a path: nothing before the first upload, then the JSON text of
\* the dict or list last uploaded (json.dumps keeps the order of the items)
NoObject == [exists |-> FALSE, body |-> <<>>]
Blob(data) == [exists |-> TRUE, body |-> data]

(* ----------------------------- gram validator -------------------------- *)
\* characters of the tokens that occur in the modelled shards
Chars(word) ==
    CASE word = "the" -> <<"t", "h", "e">>
      [] word = "cat" -> <<"c", "a", "t">>
      [] word = "c4t" -> <<"c", "4", "t">>
      [] word = "it's" -> <<"i", "t", "'", "s">>
      [] word = "" -> <<>>
      [] OTHER -> <<word>>

AsciiLetters == {Alphabet[i] : i \in 1..Len(Alphabet)}

\* re.match(r'^[a-zA-Z]+$', word)
is_alpha(word) ==
    /\ Len(Chars(word)) > 0
    /\ \A i \in 1..Len(Chars(word)) : Chars(word)[i] \in AsciiLetters

is_clean_gram(tokens) ==
    /\ Len(tokens) > 0
    /\ \A i \in 1..Len(tokens) : is_alpha(tokens[i])

(* ------------------------------ aggregates ----------------------------- *)
\* A dict is the sequence of its (key, value) items in insertion order.
HasKey(agg, gram) == \E i \in 1..Len(agg) : agg[i][1] = gram

\* agg[gram] += match on a defaultdict(int)
AggAdd(agg, gram, match) ==
    IF HasKey(agg, gram)
    THEN [i \in 1..Len(agg) |->
            IF agg[i][1] = gram THEN <<gram, agg[i][2] + match>> ELSE agg[i]]
    ELSE Append(agg, <<gram, match>>)

\* the merge with "=" for "+=": a later shard replaces the count of a gram
RECURSIVE MergeInto_Overwrite(_, _)
MergeInto_Overwrite(type_aggregate, shard_results) ==
    IF shard_results = <<>> THEN type_aggregate
    ELSE LET gram == Head(shard_results)[1]
             freq == Head(shard_results)[2]
             put == IF HasKey(type_aggregate, gram)
                    THEN [i \in 1..Len(type_aggregate) |->
                            IF type_aggregate[i][1] = gram THEN <<gram, freq>>
                            ELSE type_aggregate[i]]
                    ELSE Append(type_aggregate, <<gram, freq>>)
         IN MergeInto_Overwrite(put, Tail(shard_results))

\* for gram, freq in shard_results.items(): type_aggregate[gram] += freq
RECURSIVE MergeInto(_, _)
MergeInto(type_aggregate, shard_results) ==
    IF shard_results = <<>> THEN type_aggregate
    ELSE MergeInto(AggAdd(type_aggregate, Head(shard_results)[1], Head(shard_results)[2]),
                   Tail(shard_results))

\* {gram: freq for gram, freq in grams.items() if freq >= FREQUENCY_THRESHOLD}
AtThreshold(item) == item[2] >= FREQUENCY_THRESHOLD

\* the dict uploaded as it is
FilterDict_Unfiltered(grams) == grams

FilterDict(grams) == SelectSeq(grams, AtThreshold)

(* -------------------------- shard stream aggregator -------------------- *)
\* A line is the sequence of its tab-separated fields; the gram field is the
\* sequence of its space-separated tokens and a count field either parses
\* with int() (ok) or raises ValueError.
Count(v) == [ok |-> TRUE, v |-> v]
NaN == [ok |-> FALSE, v |-> 0]
Year == [ok |-> TRUE, v |-> 1900]

Rep(word, n) == [j \in 1..n |-> word]

LetterIndex(l) == CHOOSE i \in 1..Len(Alphabet) : Alphabet[i] = l

\* the lines served for a shard
ShardLines(url) ==
    LET n == url.base
        own == Rep(url.shard[1], n)
    IN << <<own, Year, Count(6000 + 1000 * LetterIndex(url.shard[1])), Count(10)>>,
          <<Rep("the", n), Year, Count(3000), Count(7)>>,
          <<Rep("c4t", n), Year, Count(9000), Count(7)>>,
          <<Rep("the", n), Year, Count(1000)>>,
          <<Rep("cat", n + 1), Year, Count(9000), Count(7)>>,
          <<Rep("cat", n), Year, NaN, Count(7)>>,
          <<Rep("cat", n), Year>>,
          <<Rep("it's", n), Year, Count(9000), Count(7)>> >>

\* the loop body without the comparison of the token count with n
AddLine_AnyLength(agg, line, n) ==
    IF Len(line) >= 3
    THEN IF ~line[3].ok THEN agg
         ELSE IF ~is_clean_gram(line[1]) THEN agg
         ELSE AggAdd(agg, line[1], line[3].v)
    ELSE agg

\* body of the for-loop over the stream, lines 86-98
AddLine(agg, line, n) ==
    IF Len(line) >= 3
    THEN IF ~line[3].ok THEN agg
         ELSE IF Len(line[1]) # n \/ ~is_clean_gram(line[1]) THEN agg
         ELSE AggAdd(agg, line[1], line[3].v)
    ELSE agg

RECURSIVE AggregateLines(_, _, _)
AggregateLines(agg, lines, n) ==
    IF lines = <<>> THEN agg
    ELSE AggregateLines(AddLine(agg, Head(lines), n), Tail(lines), n)

\* process_shard: the aggregate of a stream read to its end, and {} when the
\* request, the decompression or a read raised
process_shard(url, n, raised) ==
    IF raised THEN <<>> ELSE AggregateLines(<<>>, ShardLines(url), n)

(* -------------------------- threshold-rank selector -------------------- *)
\* sorted(..., key=freq, reverse=True): a stable sort, equal keys keep their
\* order
\* the insertion that puts an item before the items of equal frequency
RECURSIVE InsertDesc_Unstable(_, _)
InsertDesc_Unstable(sorted, item) ==
    IF sorted = <<>> THEN <<item>>
    ELSE IF Head(sorted)[2] > item[2]
         THEN <<Head(sorted)>> \o InsertDesc_Unstable(Tail(sorted), item)
         ELSE <<item>> \o sorted

RECURSIVE InsertDesc(_, _)
InsertDesc(sorted, item) ==
    IF sorted = <<>> THEN <<item>>
    ELSE IF Head(sorted)[2] >= item[2]
         THEN <<Head(sorted)>> \o InsertDesc(Tail(sorted), item)
         ELSE <<item>> \o sorted

RECURSIVE SortDesc(_, _)
SortDesc(sorted, items) ==
    IF items = <<>> THEN sorted
    ELSE SortDesc(InsertDesc(sorted, Head(items)), Tail(items))

\* the selection with the cut taken before the sort
filter_and_rank_CutFirst(grams, n, top_n) ==
    LET filtered == FilterDict(grams)
        cut == SubSeq(filtered, 1, Min(top_n, Len(filtered)))
        sorted_grams == SortDesc(<<>>, cut)
    IN [i \in 1..Len(sorted_grams) |->
          [gram |-> sorted_grams[i][1], freq |-> sorted_grams[i][2]]]

filter_and_rank(grams, n, top_n) ==
    LET filtered == FilterDict(grams)
        sorted_grams == SortDesc(<<>>, filtered)
        cut == SubSeq(sorted_grams, 1, Min(top_n, Len(sorted_grams)))
    IN [i \in 1..Len(cut) |-> [gram |-> cut[i][1], freq |-> cut[i][2]]]

(* ------------------------------- state --------------------------------- *)
VARIABLES
    ckpt,       \* Firestore collection ngram_shards: ids of the documents with status 'done'
    store,      \* Cloud Storage bucket: content of every path under data/google-ngram
    jobStatus,  \* system_jobs/google_ngram_last_run exists with completed = True
    pc,         \* position of every invocation of main()
    loc,        \* local variables of every invocation of main()
    log,        \* calls made by every invocation, in order
    faults,     \* failures of the environment so far
    fr_pc,      \* filter_and_rank called on its own: position,
    fr_grams,   \*   its arguments
    fr_top_n,
    fr_out,     \*   and its result
    ps_pc,      \* process_shard called on its own: position,
    ps_n,       \*   its gram order,
    ps_lines,   \*   the lines the stream has yielded so far,
    ps_agg,     \*   its local agg
    ps_ret      \*   and its result

vars == <<ckpt, store, jobStatus, pc, loc, log, faults, fr_pc, fr_grams, fr_top_n, fr_out,
         ps_pc, ps_n, ps_lines, ps_agg, ps_ret>>

ext == <<ckpt, store, jobStatus>>
fr == <<fr_pc, fr_grams, fr_top_n, fr_out>>
ps == <<ps_pc, ps_n, ps_lines, ps_agg, ps_ret>>

Procs == 1..MaxRuns

Running == {"start", "init_db", "check", "process", "upload_shard", "merge",
            "checkpoint", "rank", "accum", "job", "words", "phrases"}
Terminated == {"done", "aborted", "crashed"}

\* the locals before main() has assigned them, and after it has returned
NoLocals == [bucket_name |-> FALSE, db_client |-> FALSE, n |-> 0, i |-> 0,
             shard_results |-> <<>>, type_aggregate |-> <<>>, top_results |-> <<>>,
             words_top |-> <<>>, phrases_top_accum |-> <<>>]

\* a call of the environment may raise while the failure budget lasts
Raises == IF faults < MaxFaults THEN {FALSE, TRUE} ELSE {FALSE}

Count1(raised) == IF raised THEN 1 ELSE 0

Logged(p, ev) == \E k \in 1..Len(log[p]) : log[p][k] = ev

urls(p) == build_shard_urls(loc[p].n)
url(p) == urls(p)[loc[p].i]
shard_id(p) == ShardIdOf(url(p))

Set(f, p, v) == [f EXCEPT ![p] = v]
Note(p, evs) == log' = [log EXCEPT ![p] = @ \o evs]

(* --------------------------- storage clients --------------------------- *)
\* upload_to_storage: the blob is replaced, or the error is logged
upload_to_storage(bucket, file_path, data, raised) ==
    IF raised THEN bucket ELSE [bucket EXCEPT ![file_path] = Blob(data)]

\* the write replacing the collection by the one document
set_checkpoint_Replace(db, doc_id, raised) ==
    IF raised THEN db ELSE {doc_id}

\* doc_ref.set({'status': 'done', ...}) under try/except
set_checkpoint(db, doc_id, raised) ==
    IF raised THEN db ELSE db \cup {doc_id}

\* the lookup answering True when it raised
is_shard_done_TrueOnError(db, doc_id, raised) ==
    IF raised THEN TRUE ELSE doc_id \in db

\* the lookup that never finds a checkpoint
is_shard_done_Never(db, doc_id, raised) == FALSE

\* is_shard_done: doc.exists and status == 'done', False when the lookup raised
is_shard_done(db, doc_id, raised) ==
    IF raised THEN FALSE ELSE doc_id \in db

(* ------------------------------- main() -------------------------------- *)
TypeOK ==
    /\ ckpt \subseteq AllDocIds
    /\ DOMAIN store = Paths
    /\ jobStatus \in BOOLEAN
    /\ pc \in [Procs -> {"idle"} \cup Running \cup Terminated]
    /\ faults \in 0..MaxFaults
    /\ \A p \in Procs : loc[p].n \in 0..LastOrder

InitMain ==
    /\ ckpt = {}
    /\ store = [f \in Paths |-> NoObject]
    /\ jobStatus = FALSE
    /\ pc = [p \in Procs |-> "idle"]
    /\ loc = [p \in Procs |-> NoLocals]
    /\ log = [p \in Procs |-> <<>>]
    /\ faults = 0

InitRank ==
    /\ fr_pc = "off"
    /\ fr_grams = <<>>
    /\ fr_top_n = 0
    /\ fr_out = <<>>

InitStream ==
    /\ ps_pc = "off"
    /\ ps_n = 0
    /\ ps_lines = <<>>
    /\ ps_agg = <<>>
    /\ ps_ret = <<>>

Init == InitMain /\ InitRank /\ InitStream

\* the VM starts the script; FIREBASE_STORAGE_BUCKET is exported or not
StartRun(p) ==
    /\ pc[p] = "idle"
    /\ \A q \in Procs : q < p => pc[q] \in Terminated
    /\ \E bucket_name \in BOOLEAN :
          loc' = Set(loc, p, [NoLocals EXCEPT !.bucket_name = bucket_name])
    /\ pc' = Set(pc, p, "start")
    /\ UNCHANGED <<ext, log, faults, fr, ps>>

\* the run going on without the bucket setting
CheckBucket_Proceeds(p) ==
    /\ pc[p] = "start"
    /\ pc' = Set(pc, p, "init_db")
    /\ UNCHANGED <<loc, ext, log, faults, fr, ps>>

\* lines 164-168
CheckBucket(p) ==
    /\ pc[p] = "start"
    /\ IF ~loc[p].bucket_name
       THEN /\ pc' = Set(pc, p, "aborted")
            /\ loc' = Set(loc, p, NoLocals)
       ELSE /\ pc' = Set(pc, p, "init_db")
            /\ UNCHANGED loc
    /\ UNCHANGED <<ext, log, faults, fr, ps>>

\* the run given up when the Firestore client cannot be built
InitFirestore_Aborts(p) ==
    /\ pc[p] = "init_db"
    /\ \E raised \in Raises :
          /\ loc' = Set(loc, p, IF raised THEN NoLocals
                                ELSE [loc[p] EXCEPT !.db_client = TRUE,
                                                    !.n = FirstOrder, !.i = 1])
          /\ faults' = faults + Count1(raised)
          /\ Note(p, IF raised THEN << <<"db_init_failed">> >> ELSE <<>>)
          /\ pc' = Set(pc, p, IF raised THEN "aborted" ELSE "check")
    /\ UNCHANGED <<ext, fr, ps>>

\* lines 171-189: the Firestore client, the consolidated lists, the first order
InitFirestore(p) ==
    /\ pc[p] = "init_db"
    /\ \E raised \in Raises :
          /\ loc' = Set(loc, p, [loc[p] EXCEPT !.db_client = ~raised,
                                               !.words_top = <<>>,
                                               !.phrases_top_accum = <<>>,
                                               !.n = FirstOrder, !.i = 1,
                                               !.type_aggregate = <<>>])
          /\ faults' = faults + Count1(raised)
          /\ Note(p, IF raised THEN << <<"db_init_failed">> >> ELSE <<>>)
    /\ pc' = Set(pc, p, "check")
    /\ UNCHANGED <<ext, fr, ps>>

\* the skip branch without its continue
SkipShard_FallsThrough(p) ==
    /\ pc' = Set(pc, p, "process")
    /\ UNCHANGED loc

\* lines 197-199: the shard is counted as skipped and the loop continues
SkipShard(p) ==
    /\ pc' = Set(pc, p, "check")
    /\ loc' = Set(loc, p, [loc[p] EXCEPT !.i = @ + 1])

\* lines 192-199: the next url of the order and its checkpoint lookup
CheckShard(p) ==
    /\ pc[p] = "check"
    /\ loc[p].i <= Len(urls(p))
    /\ \E raised \in Raises :
          /\ faults' = faults + Count1(raised)
          /\ LET done == is_shard_done(ckpt, DocId(loc[p].n, shard_id(p)), raised)
             IN /\ Note(p, << <<"lookup", shard_id(p)>> >>
                           \o (IF raised THEN << <<"lookup_failed", shard_id(p)>> >>
                               ELSE <<>>)
                           \o (IF done THEN << <<"skip", shard_id(p)>> >> ELSE <<>>))
                /\ IF done
                   THEN SkipShard(p)
                   ELSE /\ pc' = Set(pc, p, "process")
                        /\ UNCHANGED loc
    /\ UNCHANGED <<ext, fr, ps>>

\* line 202
ProcessShard(p) ==
    /\ pc[p] = "process"
    /\ \E raised \in Raises :
          /\ faults' = faults + Count1(raised)
          /\ loc' = Set(loc, p, [loc[p] EXCEPT
                           !.shard_results = process_shard(url(p), loc[p].n, raised)])
          /\ Note(p, << <<"fetch", shard_id(p)>> >>
                     \o IF raised THEN << <<"fetch_failed", shard_id(p)>> >> ELSE <<>>)
    /\ pc' = Set(pc, p, "upload_shard")
    /\ UNCHANGED <<ext, fr, ps>>

\* lines 205-208
UploadShard(p) ==
    /\ pc[p] = "upload_shard"
    /\ LET shard_file == ShardFile(loc[p].n, shard_id(p))
           filtered_shard == FilterDict(loc[p].shard_results)
       IN \E raised \in Raises :
             /\ faults' = faults + Count1(raised)
             /\ store' = upload_to_storage(store, shard_file, filtered_shard, raised)
             /\ Note(p, << <<"upload", shard_file>> >>
                        \o IF raised THEN <<>> ELSE << <<"landed", shard_file>> >>)
    /\ pc' = Set(pc, p, "merge")
    /\ UNCHANGED <<ckpt, jobStatus, loc, fr, ps>>

\* lines 211-212
MergeShard(p) ==
    /\ pc[p] = "merge"
    /\ loc' = Set(loc, p, [loc[p] EXCEPT
                     !.type_aggregate = MergeInto(@, loc[p].shard_results)])
    /\ Note(p, << <<"merge", shard_id(p)>> >>)
    /\ pc' = Set(pc, p, "checkpoint")
    /\ UNCHANGED <<ext, faults, fr, ps>>

\* lines 215-231: the checkpoint through the initialized client, or through
\* update_firestore_checkpoint when there is none; either way under try/except
WriteCheckpoint(p) ==
    /\ pc[p] = "checkpoint"
    /\ \E raised \in Raises :
          /\ faults' = faults + Count1(raised)
          /\ ckpt' = set_checkpoint(ckpt, DocId(loc[p].n, shard_id(p)), raised)
          /\ Note(p, << <<"ckpt_try", shard_id(p)>> >>
                     \o IF raised THEN <<>> ELSE << <<"ckpt_done", shard_id(p)>> >>)
    /\ loc' = Set(loc, p, [loc[p] EXCEPT !.i = @ + 1])
    /\ pc' = Set(pc, p, "check")
    /\ UNCHANGED <<store, jobStatus, fr, ps>>

\* lines 235-237, once the urls of the order are exhausted
RankType(p) ==
    /\ pc[p] = "check"
    /\ loc[p].i > Len(urls(p))
    /\ LET n == loc[p].n
           top_results == filter_and_rank(loc[p].type_aggregate, n, TOP_COUNTS[n])
       IN /\ loc' = Set(loc, p, [loc[p] EXCEPT !.top_results = top_results])
          /\ \E raised \in Raises :
                /\ faults' = faults + Count1(raised)
                /\ store' = upload_to_storage(store, TopFile(n), top_results, raised)
                /\ Note(p, << <<"upload", TopFile(n)>> >>
                           \o IF raised THEN <<>> ELSE << <<"landed", TopFile(n)>> >>)
    /\ pc' = Set(pc, p, "accum")
    /\ UNCHANGED <<ckpt, jobStatus, fr, ps>>

\* the consolidated files written right after the last order, no job status
AfterOrder_NoJobStatus(n) == IF n = LastOrder THEN "words" ELSE "check"

\* where main() goes after the body of the order loop
AfterOrder(n) == IF n = LastOrder THEN "job" ELSE "check"

\* lines 240-246 and the next iteration of line 183
Accumulate(p) ==
    /\ pc[p] = "accum"
    /\ LET n == loc[p].n
           consolidated ==
               IF n = 1
               THEN [loc[p] EXCEPT !.words_top = loc[p].top_results]
               ELSE [loc[p] EXCEPT !.phrases_top_accum = @ \o loc[p].top_results]
       IN /\ loc' = Set(loc, p,
                        IF AfterOrder(n) = "check"
                        THEN [consolidated EXCEPT !.n = n + 1, !.i = 1,
                                                  !.type_aggregate = <<>>]
                        ELSE consolidated)
          /\ pc' = Set(pc, p, AfterOrder(n))
    /\ UNCHANGED <<ext, log, faults, fr, ps>>

\* lines 249-257
MarkJobComplete(p) ==
    /\ pc[p] = "job"
    /\ \E raised \in Raises :
          /\ faults' = faults + Count1(raised)
          /\ jobStatus' = IF raised THEN jobStatus ELSE TRUE
          /\ Note(p, << <<"job_try">> >>
                     \o IF raised THEN <<>> ELSE << <<"job_done">> >>)
    /\ pc' = Set(pc, p, "words")
    /\ UNCHANGED <<ckpt, store, loc, fr, ps>>

\* lines 261-262
WriteWords(p) ==
    /\ pc[p] = "words"
    /\ IF loc[p].words_top # <<>>
       THEN \E raised \in Raises :
               /\ faults' = faults + Count1(raised)
               /\ store' = upload_to_storage(store, WordsFile, loc[p].words_top, raised)
               /\ Note(p, << <<"upload", WordsFile>> >>
                          \o IF raised THEN <<>> ELSE << <<"landed", WordsFile>> >>)
       ELSE UNCHANGED <<store, log, faults>>
    /\ pc' = Set(pc, p, "phrases")
    /\ UNCHANGED <<ckpt, jobStatus, loc, fr, ps>>

\* lines 263-270; main() returns
WritePhrases(p) ==
    /\ pc[p] = "phrases"
    /\ IF loc[p].phrases_top_accum # <<>>
       THEN \E raised \in Raises :
               /\ faults' = faults + Count1(raised)
               /\ store' = upload_to_storage(store, PhrasesFile,
                                             loc[p].phrases_top_accum, raised)
               /\ Note(p, << <<"upload", PhrasesFile>> >>
                          \o IF raised THEN <<>> ELSE << <<"landed", PhrasesFile>> >>)
       ELSE UNCHANGED <<store, log, faults>>
    /\ pc' = Set(pc, p, "done")
    /\ loc' = Set(loc, p, NoLocals)
    /\ UNCHANGED <<ckpt, jobStatus, fr, ps>>

\* the VM is stopped while main() runs
Interrupt(p) ==
    /\ pc[p] \in Running
    /\ faults < MaxFaults
    /\ faults' = faults + 1
    /\ pc' = Set(pc, p, "crashed")
    /\ loc' = Set(loc, p, NoLocals)
    /\ UNCHANGED <<ext, log, fr, ps>>

Step(p) ==
    \/ StartRun(p)
    \/ CheckBucket(p)
    \/ InitFirestore(p)
    \/ CheckShard(p)
    \/ ProcessShard(p)
    \/ UploadShard(p)
    \/ MergeShard(p)
    \/ WriteCheckpoint(p)
    \/ RankType(p)
    \/ Accumulate(p)
    \/ MarkJobComplete(p)
    \/ WriteWords(p)
    \/ WritePhrases(p)

Next == \E p \in Procs : Step(p) \/ Interrupt(p)

Spec == Init /\ [][Next]_vars

\* main() is sequential and each of its calls returns or raises, so a run
\* that can take a step takes it.  Step(p) is enabled exactly when CanStep(p)
\* holds and every step moves pc, which is how the fairness condition is
\* written.
StepLive == \E p \in Procs : Step(p)

CanStep(p) ==
    \/ pc[p] \in Running
    \/ pc[p] = "idle" /\ \A q \in Procs : q < p => pc[q] \in Terminated

Progress ==
    \E p \in Procs : \E to \in Running \cup Terminated :
        /\ CanStep(p)
        /\ to # pc[p]
        /\ pc' = Set(pc, p, to)

LiveSpec == Init /\ [][StepLive]_vars /\ WF_pc(Progress)

(* ----------------------- two runs at the same time --------------------- *)
\* Nothing in main() takes a lock or a lease: a second VM may start the script
\* while the first is still in its shard loop.  The two runs share Firestore
\* and the bucket and nothing else.  The environment raises nothing here.
ConcProcs == 1..Min(2, MaxRuns)

InitConc ==
    /\ ckpt = {}
    /\ store = [f \in Paths |-> NoObject]
    /\ jobStatus = FALSE
    /\ pc = [p \in Procs |-> "idle"]
    /\ loc = [p \in Procs |-> NoLocals]
    /\ log = [p \in Procs |-> <<>>]
    /\ faults = MaxFaults
    /\ InitRank
    /\ InitStream

\* the script started with the bucket set, whatever the other run is doing
StartConcurrent(p) ==
    /\ pc[p] = "idle"
    /\ loc' = Set(loc, p, [NoLocals EXCEPT !.bucket_name = TRUE])
    /\ pc' = Set(pc, p, "start")
    /\ UNCHANGED <<ext, log, faults, fr, ps>>

\* the schedules explored: the later run overlaps with the earlier one while
\* it is in its first MaxOverlapOrder orders, and goes on from there once the
\* earlier run has ended
Scheduled(p) ==
    \/ loc[p].n <= MaxOverlapOrder
    \/ \A q \in ConcProcs : q < p => pc[q] \in Terminated

ConcNext ==
    \E p \in ConcProcs : StartConcurrent(p) \/ (Scheduled(p) /\ Step(p))

ConcSpec == InitConc /\ [][ConcNext]_vars

(* --------------------- process_shard called on its own ----------------- *)
\* the lines a stream of order n may yield, after decode('utf-8').strip():
\* two grams that pass, with three and with four fields, a count with a minus
\* sign, a blank line, and one line for each way of being discarded
StreamLines(n) ==
    { <<Rep("the", n), Year, Count(3000), Count(7)>>,
      <<Rep("cat", n), Year, Count(2500)>>,
      <<Rep("the", n), Year, Count(0 - 7), Count(1)>>,
      << <<"">> >>,
      <<Rep("cat", n), Year>>,
      <<Rep("cat", n), Year, NaN, Count(7)>>,
      <<Rep("cat", n + 1), Year, Count(9000), Count(7)>>,
      <<Rep("the", n - 1) \o <<"c4t">>, Year, Count(9000), Count(7)>>,
      <<Rep("the", n - 1) \o <<"it's">>, Year, Count(9000), Count(7)>> }

InitShardCall ==
    /\ InitMain
    /\ InitRank
    /\ ps_pc = "stream"
    /\ ps_n \in FirstOrder..LastOrder
    /\ ps_lines = <<>>
    /\ ps_agg = <<>>
    /\ ps_ret = <<>>

\* lines 76-98: one turn of the for-loop
ReadLine ==
    /\ ps_pc = "stream"
    /\ Len(ps_lines) < MaxLines
    /\ \E line \in StreamLines(ps_n) :
          /\ ps_lines' = Append(ps_lines, line)
          /\ ps_agg' = AddLine(ps_agg, line, ps_n)
    /\ UNCHANGED <<ext, pc, loc, log, faults, fr, ps_pc, ps_n, ps_ret>>

\* lines 100-101: the stream is exhausted
ReturnAgg ==
    /\ ps_pc = "stream"
    /\ ps_ret' = ps_agg
    /\ ps_pc' = "ret"
    /\ UNCHANGED <<ext, pc, loc, log, faults, fr, ps_n, ps_lines, ps_agg>>

\* the handler returning what was accumulated so far
StreamRaises_Partial ==
    /\ ps_pc = "stream"
    /\ ps_ret' = ps_agg
    /\ ps_pc' = "failed"
    /\ UNCHANGED <<ext, pc, loc, log, faults, fr, ps_n, ps_lines, ps_agg>>

\* lines 103-105: the request, the decompression, a read or the decoding of a
\* line raised, before the first line or after any number of them
StreamRaises ==
    /\ ps_pc = "stream"
    /\ ps_ret' = <<>>
    /\ ps_pc' = "failed"
    /\ UNCHANGED <<ext, pc, loc, log, faults, fr, ps_n, ps_lines, ps_agg>>

ShardNext == ReadLine \/ ReturnAgg \/ StreamRaises

ShardSpec == InitShardCall /\ [][ShardNext]_vars

(* -------------------- filter_and_rank called on its own ---------------- *)
GramNames == {Rep(Alphabet[i], 1) : i \in 1..MaxGrams}
FreqValues == {FREQUENCY_THRESHOLD - 1, FREQUENCY_THRESHOLD,
               FREQUENCY_THRESHOLD + 1, FREQUENCY_THRESHOLD + 2000}

\* the dicts of at most MaxGrams items: no key occurs twice
Dicts == {d \in UNION {[1..l -> GramNames \X FreqValues] : l \in 0..MaxGrams} :
             \A i, j \in 1..Len(d) : d[i][1] = d[j][1] => i = j}

InitCall ==
    /\ InitMain
    /\ InitStream
    /\ fr_pc = "call"
    /\ fr_grams \in Dicts
    /\ fr_top_n \in 0..MaxK
    /\ fr_out = <<>>

CallFilterAndRank ==
    /\ fr_pc = "call"
    /\ fr_out' = filter_and_rank(fr_grams, 1, fr_top_n)
    /\ fr_pc' = "ret"
    /\ UNCHANGED <<ext, pc, loc, log, faults, fr_grams, fr_top_n, ps>>

RankSpec == InitCall /\ [][CallFilterAndRank]_vars

(* =============================== claims ================================ *)
LastStarted(p) == pc[p] # "idle" /\ \A q \in Procs : q > p => pc[q] = "idle"

C2_FailedShardNotMarkedDone ==
    \A p \in Procs : \A u \in AllUrls :
        Logged(p, <<"fetch_failed", ShardIdOf(u)>>) =>
            ~Logged(p, <<"ckpt_done", ShardIdOf(u)>>)

\* C3: when an order has been processed, its ranked result is the selection
\* (threshold, descending, at most TOP_COUNTS) over the per-gram sums of the
\* aggregates of the shards of the order that were not skipped, and that is
\* the content of {n}gram_top.json when the upload landed.
C3_TypeTopIsSelectionOfUnskipped ==
    \A p \in Procs :
        pc[p] = "accum" =>
            LET n == loc[p].n
                us == build_shard_urls(n)
                kept == {i \in 1..Len(us) : ~Logged(p, <<"skip", ShardIdOf(us[i])>>)}
                agg(i) == process_shard(us[i], n,
                                        Logged(p, <<"fetch_failed", ShardIdOf(us[i])>>))
                cnt(i, g) == IF i \in kept /\ HasKey(agg(i), g)
                             THEN agg(i)[CHOOSE k \in 1..Len(agg(i)) : agg(i)[k][1] = g][2]
                             ELSE 0
                RECURSIVE sum(_, _)
                sum(i, g) == IF i = 0 THEN 0 ELSE cnt(i, g) + sum(i - 1, g)
                total(g) == sum(Len(us), g)
                grams == UNION {{agg(i)[k][1] : k \in 1..Len(agg(i))} : i \in kept}
                qual == {g \in grams : total(g) >= FREQUENCY_THRESHOLD}
                top == loc[p].top_results
            IN /\ Len(top) = Min(TOP_COUNTS[n], Cardinality(qual))
               /\ \A k \in 1..Len(top) :
                     /\ top[k].gram \in qual
                     /\ top[k].freq = total(top[k].gram)
               /\ \A j, k \in 1..Len(top) :
                     j < k => top[j].freq >= top[k].freq /\ top[j].gram # top[k].gram
               /\ \A g \in qual :
                     (\A k \in 1..Len(top) : top[k].gram # g) =>
                        \A k \in 1..Len(top) : total(g) <= top[k].freq
               /\ Logged(p, <<"landed", TopFile(n)>>) => store[TopFile(n)] = Blob(top)

\* an order with a skipped and a processed shard, a non-empty result, landed
C3_Witness ==
    \E p \in Procs :
        /\ pc[p] = "accum"
        /\ \E u, v \in AllUrls :
              /\ u.base = loc[p].n /\ v.base = loc[p].n
              /\ Logged(p, <<"skip", ShardIdOf(u)>>)
              /\ Logged(p, <<"merge", ShardIdOf(v)>>)
        /\ loc[p].top_results # <<>>
        /\ store[TopFile(loc[p].n)] = Blob(loc[p].top_results)

JobWriteRaised(p) == Logged(p, <<"job_try">>) /\ ~Logged(p, <<"job_done">>)

\* C4 (as claimed): every run that passes the bucket check eventually has
\* written the job-status record.
C4_RunWritesJobStatus ==
    \A p \in Procs : [](pc[p] = "init_db" => <>Logged(p, <<"job_done">>))

\* C4 (amended): every run that passes the bucket check eventually makes the
\* job-status write after the last order, and the record is written unless
\* that write itself raised.
C4_RunReachesJobStatusWrite ==
    \A p \in Procs :
        [](pc[p] = "init_db" =>
              <>(/\ Logged(p, <<"job_try">>)
                 /\ Logged(p, <<"upload", TopFile(LastOrder)>>)
                 /\ ((Logged(p, <<"job_done">>) /\ jobStatus) \/ JobWriteRaised(p))))

\* a run in which a shard stream, an upload or a checkpoint call raised and
\* the job-status record was written all the same
C4_Witness ==
    \E p \in Procs :
        /\ Logged(p, <<"job_done">>)
        /\ jobStatus
        /\ faults > 0
        /\ \E u \in AllUrls : Logged(p, <<"fetch_failed", ShardIdOf(u)>>)

\* C5: a run without the bucket setting ends at once: it makes no call to the
\* shard host, the bucket or Firestore, and changes nothing in them.
C5_NoBucketNoEffect ==
    /\ [](\A p \in Procs : pc[p] = "aborted" => log[p] = <<>>)
    /\ [][\A p \in Procs :
             (pc[p] = "start" /\ ~loc[p].bucket_name) =>
                 /\ pc'[p] \in {"aborted", "crashed"}
                 /\ log'[p] = <<>>
                 /\ ext' = ext]_vars
    /\ [][\A p \in Procs : pc[p] = "aborted" => pc'[p] = "aborted"]_vars

\* a run aborted for the missing setting, after a run that left files behind
C5_Witness ==
    \E p, q \in Procs :
        /\ pc[p] = "aborted"
        /\ q < p /\ pc[q] = "done" /\ jobStatus
        /\ store[WordsFile].exists

\* C6 (as claimed): the job-status record is written only after the
\* consolidated upload step has run.
C6_JobStatusAfterConsolidated ==
    \A p \in Procs : Logged(p, <<"job_done">>) => pc[p] = "done"

AllLanded(p) ==
    \A f \in Paths : Logged(p, <<"upload", f>>) => Logged(p, <<"landed", f>>)

\* C7 (as claimed): after a run in which every upload landed, words_top.json
\* holds what 1gram_top.json holds.
C7_WordsIsTop1 ==
    \A p \in Procs :
        (pc[p] = "done" /\ LastStarted(p) /\ AllLanded(p)) =>
            store[WordsFile] = store[TopFile(1)]

\* C8 (as claimed): after a run in which every upload landed,
\* phrases_top.json holds 2gram_top.json .. 5gram_top.json one after another.
C8_PhrasesIsConcatenation ==
    \A p \in Procs :
        (pc[p] = "done" /\ LastStarted(p) /\ AllLanded(p)) =>
            /\ \A n \in 2..5 : store[TopFile(n)].exists
            /\ store[PhrasesFile].exists
            /\ store[PhrasesFile].body =
                  store[TopFile(2)].body \o store[TopFile(3)].body
                  \o store[TopFile(4)].body \o store[TopFile(5)].body

\* C9: filter_and_rank returns entries of the aggregate that all reach the
\* threshold, in non-increasing frequency, min(top_n, number reaching the
\* threshold) many, and leaves out no entry reaching the threshold that is
\* more frequent than one it returns.
C9_FilterThenTopK ==
    fr_pc = "ret" =>
        LET qual == {i \in 1..Len(fr_grams) : fr_grams[i][2] >= FREQUENCY_THRESHOLD}
            In(i) == \E k \in 1..Len(fr_out) : fr_out[k].gram = fr_grams[i][1]
        IN /\ \A k \in 1..Len(fr_out) :
                 /\ fr_out[k].freq >= FREQUENCY_THRESHOLD
                 /\ \E i \in 1..Len(fr_grams) :
                       fr_grams[i] = <<fr_out[k].gram, fr_out[k].freq>>
           /\ \A j, k \in 1..Len(fr_out) :
                 j < k => fr_out[j].freq >= fr_out[k].freq /\ fr_out[j].gram # fr_out[k].gram
           /\ Len(fr_out) = Min(fr_top_n, Cardinality(qual))
           /\ \A i \in qual :
                 ~In(i) => \A k \in 1..Len(fr_out) : fr_grams[i][2] <= fr_out[k].freq

\* a call where an entry below the threshold is dropped and the cut leaves
\* out an entry that reaches it
C9_Witness ==
    /\ fr_pc = "ret"
    /\ \E i \in 1..Len(fr_grams) : fr_grams[i][2] < FREQUENCY_THRESHOLD
    /\ Len(fr_out) = fr_top_n
    /\ fr_top_n > 0
    /\ Cardinality({i \in 1..Len(fr_grams) : fr_grams[i][2] >= FREQUENCY_THRESHOLD}) > fr_top_n

\* C10 (as claimed): a shard with a 'done' checkpoint written by a run has
\* been merged by that run and its filtered file is in the bucket.
C10_CheckpointImpliesPublished ==
    \A p \in Procs : \A u \in AllUrls :
        Logged(p, <<"ckpt_done", ShardIdOf(u)>>) =>
            /\ Logged(p, <<"merge", ShardIdOf(u)>>)
            /\ store[ShardFile(u.base, ShardIdOf(u))].exists

InFlight(p, u) ==
    pc[p] \in {"process", "upload_shard", "merge", "checkpoint"} /\ url(p) = u

CountEv(p, ev) == Cardinality({k \in 1..Len(log[p]) : log[p][k] = ev})

\* C11: a checkpoint lookup that raises counts as "not done": the shard is
\* not skipped but fetched, its filtered file uploaded, its aggregate merged
\* and its checkpoint write attempted, and the run does not end on it.
C11_LookupFailureProcessesShard ==
    /\ [][\A p \in Procs :
             (\E k \in (Len(log[p]) + 1)..Len(log'[p]) :
                  log'[p][k][1] = "lookup_failed") =>
                 /\ pc[p] = "check" /\ pc'[p] = "process"
                 /\ log'[p] = log[p] \o << <<"lookup", shard_id(p)>>,
                                           <<"lookup_failed", shard_id(p)>> >>
                 /\ loc'[p] = loc[p]
                 /\ ext' = ext]_vars
    /\ [](\A p \in Procs : \A u \in AllUrls :
            Logged(p, <<"lookup_failed", ShardIdOf(u)>>) =>
                LET sid == ShardIdOf(u)
                    fetched == Logged(p, <<"fetch", sid>>)
                    uploaded == Logged(p, <<"upload", ShardFile(u.base, sid)>>)
                    merged == Logged(p, <<"merge", sid>>)
                    tried == Logged(p, <<"ckpt_try", sid>>)
                IN /\ ~Logged(p, <<"skip", sid>>)
                   /\ pc[p] # "aborted"
                   /\ IF pc[p] = "crashed" THEN TRUE
                      ELSE IF InFlight(p, u)
                      THEN /\ pc[p] # "process" => fetched
                           /\ pc[p] \in {"merge", "checkpoint"} => uploaded
                           /\ pc[p] = "checkpoint" => merged
                      ELSE fetched /\ uploaded /\ merged /\ tried)

\* a shard checkpointed by an earlier run whose lookup raises in the next
\* run, which processes it again in full
C11_Witness ==
    \E p, q \in Procs : \E u \in AllUrls :
        /\ q < p
        /\ Logged(q, <<"ckpt_done", ShardIdOf(u)>>)
        /\ Logged(p, <<"lookup_failed", ShardIdOf(u)>>)
        /\ Logged(p, <<"fetch", ShardIdOf(u)>>)
        /\ Logged(p, <<"landed", ShardFile(u.base, ShardIdOf(u))>>)
        /\ Logged(p, <<"merge", ShardIdOf(u)>>)
        /\ Logged(p, <<"ckpt_done", ShardIdOf(u)>>)
        /\ pc[p] = "done"

\* C12 (as claimed): a run whose Firestore client could not be built skips no
\* shard.
C12_NoClientNoSkip ==
    \A p \in Procs :
        Logged(p, <<"db_init_failed">>) =>
            /\ pc[p] # "aborted"
            /\ \A u \in AllUrls : ~Logged(p, <<"skip", ShardIdOf(u)>>)

\* C12 (amended): a run whose Firestore client could not be built does not
\* abort; it skips a shard only when the lookup made with a fresh default
\* client succeeded and found the shard's 'done' document.
C12_NoClientSkipsOnlyDone ==
    \A p \in Procs :
        Logged(p, <<"db_init_failed">>) =>
            /\ pc[p] # "aborted"
            /\ \A u \in AllUrls :
                  Logged(p, <<"skip", ShardIdOf(u)>>) =>
                      /\ DocId(u.base, ShardIdOf(u)) \in ckpt
                      /\ ~Logged(p, <<"lookup_failed", ShardIdOf(u)>>)

\* a run without its client that ran to the end and skipped a shard that an
\* earlier run had checkpointed
C12_Witness ==
    \E p, q \in Procs : \E u \in AllUrls :
        /\ q < p
        /\ Logged(q, <<"ckpt_done", ShardIdOf(u)>>)
        /\ Logged(p, <<"db_init_failed">>)
        /\ Logged(p, <<"skip", ShardIdOf(u)>>)
        /\ pc[p] = "done"

\* C13: in a run the filtered file of a shard is uploaded at most once, never
\* for a skipped shard and exactly once for a shard that was processed, and
\* what lands at {n}gram_{shardId}_filtered.json is exactly the entries of the
\* shard's aggregate whose count reaches the threshold.
C13_OneFilteredUploadPerShard ==
    /\ [][\A p \in Procs : \A k \in (Len(log[p]) + 1)..Len(log'[p]) :
             LET ev == log'[p][k]
             IN /\ (ev[1] = "upload" /\ ev[2][1] = "filtered") =>
                      /\ pc[p] = "upload_shard"
                      /\ ev[2] = ShardFile(loc[p].n, shard_id(p))
                      /\ ~Logged(p, ev)
                      /\ ~Logged(p, <<"skip", shard_id(p)>>)
                      /\ Logged(p, <<"fetch", shard_id(p)>>)
                /\ ev[1] = "skip" =>
                      ~Logged(p, <<"upload", ShardFile(ev[2][1], ev[2])>>)
                /\ ev[1] = "merge" =>
                      Logged(p, <<"upload", ShardFile(ev[2][1], ev[2])>>)]_vars
    /\ [](\A p \in Procs :
             pc[p] = "merge" =>
                LET u == url(p)
                    f == ShardFile(u.base, ShardIdOf(u))
                    agg == process_shard(u, u.base,
                                         Logged(p, <<"fetch_failed", ShardIdOf(u)>>))
                    keep == {k \in 1..Len(agg) : agg[k][2] >= FREQUENCY_THRESHOLD}
                IN /\ CountEv(p, <<"upload", f>>) = 1
                   /\ Logged(p, <<"landed", f>>) =>
                         /\ store[f].exists
                         /\ Len(store[f].body) = Cardinality(keep)
                         /\ \A k \in 1..Len(agg) :
                               k \in keep <=> \E j \in 1..Len(store[f].body) :
                                                 store[f].body[j] = agg[k])

\* a run that skipped a shard and has just uploaded for another a filtered
\* file that leaves out an entry below the threshold
C13_Witness ==
    \E p \in Procs : \E u, v \in AllUrls :
        /\ InFlight(p, v) /\ pc[p] = "merge"
        /\ Logged(p, <<"skip", ShardIdOf(u)>>)
        /\ Logged(p, <<"landed", ShardFile(v.base, ShardIdOf(v))>>)
        /\ ~Logged(p, <<"fetch_failed", ShardIdOf(v)>>)
        /\ Len(loc[p].shard_results) = 2
        /\ Len(store[ShardFile(v.base, ShardIdOf(v))].body) = 1

\* C14: with two runs at the same time the lookup of a shard's checkpoint and
\* the write of it are separate steps with nothing held in between.  The
\* lookup writes nothing and decides on the store as it is at that moment: the
\* run goes on to process the shard exactly when no 'done' document is there.
\* From then on it fetches, uploads, merges and writes the checkpoint without
\* looking again, whatever the other run has written meanwhile.
C14_CheckThenActNotAtomic ==
    [][\A p \in ConcProcs :
          LET doc == DocId(loc[p].n, shard_id(p))
          IN /\ (pc[p] = "check" /\ pc'[p] = "process") =>
                    /\ doc \notin ckpt
                    /\ ext' = ext
                    /\ loc'[p] = loc[p]
             /\ (pc[p] = "check" /\ pc'[p] = "check" /\ loc'[p].i = loc[p].i + 1) =>
                    /\ doc \in ckpt
                    /\ ext' = ext
             /\ (pc[p] = "process" /\ pc'[p] # "process") =>
                    pc'[p] = "upload_shard" /\ ext' = ext
             /\ (pc[p] = "upload_shard" /\ pc'[p] # "upload_shard") =>
                    /\ pc'[p] = "merge"
                    /\ store'[ShardFile(loc[p].n, shard_id(p))].exists
                    /\ ckpt' = ckpt
             /\ (pc[p] = "merge" /\ pc'[p] # "merge") =>
                    pc'[p] = "checkpoint" /\ ext' = ext
             /\ (pc[p] = "checkpoint" /\ pc'[p] # "checkpoint") =>
                    /\ pc'[p] = "check"
                    /\ ckpt' = ckpt \cup {doc}]_vars

\* both runs looked a shard up, neither skipped it, and both fetched it,
\* uploaded its filtered file and wrote its checkpoint
C14_Witness ==
    \E p, q \in ConcProcs : \E u \in AllUrls :
        LET sid == ShardIdOf(u)
            Did(r) == /\ Logged(r, <<"lookup", sid>>)
                      /\ ~Logged(r, <<"skip", sid>>)
                      /\ ~Logged(r, <<"lookup_failed", sid>>)
                      /\ Logged(r, <<"fetch", sid>>)
                      /\ Logged(r, <<"landed", ShardFile(u.base, sid)>>)
                      /\ Logged(r, <<"merge", sid>>)
                      /\ Logged(r, <<"ckpt_done", sid>>)
        IN /\ p # q
           /\ Did(p) /\ Did(q)
           /\ pc[p] \in Running /\ pc[q] \in Running

\* C15 (as claimed): a line added to a shard aggregate never lowers a count:
\* the grams already in agg keep their place with a count at least as large,
\* and a gram entering agg (counted 0 before) enters with a count >= 0.
C15_CountsNeverDecrease ==
    [][/\ Len(ps_agg') >= Len(ps_agg)
       /\ \A i \in 1..Len(ps_agg) :
             /\ ps_agg'[i][1] = ps_agg[i][1]
             /\ ps_agg'[i][2] >= ps_agg[i][2]
       /\ \A i \in (Len(ps_agg) + 1)..Len(ps_agg') : ps_agg'[i][2] >= 0]_vars

\* the shard ids of a catalog
IdsOf(catalog) == {ShardIdOf(catalog[i]) : i \in 1..Len(catalog)}

\* C16: the catalog built from the 26 letters has 26 urls for order 1 and 676
\* for each of the orders 2-5, and as many different shard ids as urls; ids of
\* different orders differ.  Within a run a shard is looked up when the loop
\* reaches it, which happens once, and merged into the type aggregate at most
\* once.
C16_ShardVisitedAndMergedOnce ==
    /\ \A n \in FirstOrder..LastOrder :
          /\ Len(ShardUrls(Alphabet, n)) = (IF n = 1 THEN 26 ELSE 676)
          /\ Cardinality(IdsOf(ShardUrls(Alphabet, n))) = Len(ShardUrls(Alphabet, n))
          /\ \A m \in FirstOrder..LastOrder :
                m # n => IdsOf(ShardUrls(Alphabet, m)) \cap IdsOf(ShardUrls(Alphabet, n)) = {}
    /\ [][\A p \in Procs : \A k \in (Len(log[p]) + 1)..Len(log'[p]) :
             LET ev == log'[p][k]
             IN /\ ev[1] = "lookup" =>
                      /\ ~Logged(p, ev)
                      /\ pc[p] = "check" /\ ev[2] = shard_id(p)
                      /\ Cardinality(IdsOf(SubSeq(urls(p), 1, loc[p].i))) = loc[p].i
                /\ ev[1] = "merge" =>
                      /\ ~Logged(p, ev)
                      /\ pc[p] = "merge" /\ ev[2] = shard_id(p)]_vars

\* a run that came to its end with every shard of the catalog looked up once
\* and merged once
C16_Witness ==
    \E p \in Procs :
        /\ pc[p] = "done"
        /\ \A u \in AllUrls :
              /\ CountEv(p, <<"lookup", ShardIdOf(u)>>) = 1
              /\ CountEv(p, <<"merge", ShardIdOf(u)>>) = 1

\* a line that counts: at least 3 fields, an integer third field, as many
\* tokens as the gram order and only alphabetic tokens
CountedLine(line, n) ==
    /\ Len(line) >= 3
    /\ line[3].ok
    /\ Len(line[1]) = n
    /\ \A i \in 1..Len(line[1]) : is_alpha(line[1][i])

RECURSIVE SumCounted(_, _, _)
SumCounted(lines, gram, n) ==
    IF lines = <<>> THEN 0
    ELSE (IF CountedLine(Head(lines), n) /\ Head(lines)[1] = gram
          THEN Head(lines)[3].v ELSE 0) + SumCounted(Tail(lines), gram, n)

\* C17: for a stream read to its end process_shard returns a dict whose keys
\* are the grams of the lines that count and whose values are the sums of the
\* match counts of those lines; no other line adds a key or changes a value.
C17_ReturnsSumsOfCountedLines ==
    ps_pc = "ret" =>
        /\ \A i, j \in 1..Len(ps_ret) : ps_ret[i][1] = ps_ret[j][1] => i = j
        /\ {ps_ret[i][1] : i \in 1..Len(ps_ret)}
              = {ps_lines[k][1] : k \in {m \in 1..Len(ps_lines) :
                                            CountedLine(ps_lines[m], ps_n)}}
        /\ \A i \in 1..Len(ps_ret) :
              ps_ret[i][2] = SumCounted(ps_lines, ps_ret[i][1], ps_n)

\* a stream read to its end where two lines count for the same gram and a
\* line with an integer count is discarded
C17_Witness ==
    /\ ps_pc = "ret"
    /\ \E j, k, m \in 1..Len(ps_lines) :
          /\ j < k
          /\ CountedLine(ps_lines[j], ps_n) /\ CountedLine(ps_lines[k], ps_n)
          /\ ps_lines[j][1] = ps_lines[k][1]
          /\ ~CountedLine(ps_lines[m], ps_n)
          /\ Len(ps_lines[m]) >= 3 /\ ps_lines[m][3].ok

\* C18: when the stream raises, before the first line or after any number of
\* them, process_shard returns {}; what it returns is {} or the aggregate of
\* the whole stream, never the aggregate of the lines read before a failure.
C18_FailureReturnsEmpty ==
    /\ ps_pc = "failed" => ps_ret = <<>>
    /\ ps_pc = "ret" => ps_ret = AggregateLines(<<>>, ps_lines, ps_n)
    /\ ps_pc = "stream" => ps_ret = <<>>

\* the stream raised after lines had been accumulated
C18_Witness ==
    /\ ps_pc = "failed"
    /\ ps_agg # <<>>
    /\ ps_ret = <<>>

\* the place of a gram in the aggregate's insertion order
PlaceOf(gram) == CHOOSE i \in 1..Len(fr_grams) : fr_grams[i][1] = gram

\* C19: filter_and_rank is stable: entries of equal frequency come out in the
\* aggregate's insertion order, and when the cut falls among entries of equal
\* frequency the ones inserted first are kept.  For the aggregate a, b at one
\* frequency above the threshold and c below it, in that order, and top_n = 1
\* the result is the entry for a.
C19_TiesKeepInsertionOrder ==
    fr_pc = "ret" =>
        /\ \A j, k \in 1..Len(fr_out) :
              (j < k /\ fr_out[j].freq = fr_out[k].freq) =>
                  PlaceOf(fr_out[j].gram) < PlaceOf(fr_out[k].gram)
        /\ \A i \in 1..Len(fr_grams) : \A k \in 1..Len(fr_out) :
              (/\ fr_grams[i][2] = fr_out[k].freq
               /\ \A m \in 1..Len(fr_out) : fr_out[m].gram # fr_grams[i][1]) =>
                  PlaceOf(fr_out[k].gram) < i
        /\ (/\ fr_grams = << <<Rep("a", 1), FREQUENCY_THRESHOLD + 2000>>,
                            <<Rep("b", 1), FREQUENCY_THRESHOLD + 2000>>,
                            <<Rep("c", 1), FREQUENCY_THRESHOLD - 1>> >>
            /\ fr_top_n = 1) =>
              fr_out = <<[gram |-> Rep("a", 1), freq |-> FREQUENCY_THRESHOLD + 2000]>>

\* a call with top_n = 1 where two entries of equal frequency reach the
\* threshold and a third does not, and the one inserted first is returned
C19_Witness ==
    /\ fr_pc = "ret"
    /\ fr_top_n = 1
    /\ Len(fr_out) = 1
    /\ \E i, j \in 1..Len(fr_grams) :
          /\ i < j
          /\ fr_grams[i][2] = fr_grams[j][2]
          /\ fr_grams[i][2] >= FREQUENCY_THRESHOLD
          /\ fr_out[1].gram = fr_grams[i][1]
          /\ \E m \in 1..Len(fr_grams) : fr_grams[m][2] < FREQUENCY_THRESHOLD

\* C20: the set of 'done' checkpoint documents never loses a member; it grows
\* only by the document of the shard a run has just fetched, uploaded and
\* merged.
C20_CheckpointsOnlyGrow ==
    [][/\ ckpt \subseteq ckpt'
       /\ ckpt' # ckpt =>
             \E p \in Procs :
                /\ pc[p] = "checkpoint"
                /\ Logged(p, <<"merge", shard_id(p)>>)
                /\ ckpt' = ckpt \cup {DocId(loc[p].n, shard_id(p))}]_vars

\* two runs that each added documents, all of them still there
C20_Witness ==
    \E p, q \in Procs : \E u, v \in AllUrls :
        /\ q < p /\ u # v
        /\ Logged(q, <<"ckpt_done", ShardIdOf(u)>>)
        /\ Logged(p, <<"ckpt_done", ShardIdOf(v)>>)
        /\ ~Logged(q, <<"ckpt_done", ShardIdOf(v)>>)
        /\ {DocId(u.base, ShardIdOf(u)), DocId(v.base, ShardIdOf(v))} \subseteq ckpt
        /\ pc[p] = "done"

====
